---- MODULE Spec2Model ----
(***************************************************************************)
(* nexusTransfer: LAN peer discovery, framed one-message-per-connection    *)
(* transport and the chunked file-transfer engine.                         *)
(*                                                                         *)
(*   Spec        transfer engine (src/transfer/mod.rs) driven by the       *)
(*               per-message tasks of src/main.rs and by direct callers    *)
(*   SpecNet     peer registry, discovery task, senders, list_peers        *)
(*               (src/network/mod.rs), with the tokio RwLock made explicit *)
(*   SpecListen  accept loop and per-connection handlers                   *)
(*   SpecFrame   the length prefix of send_message at its real width       *)
(*   SpecCodec   a Message through Message::encode and Message::decode     *)
(*   SpecDispatch  the handle_message tasks alone, with fair scheduling    *)
(*   SpecChunks  FileChunk handlers alone, from any registered state       *)
(*   SpecCmd     the /file command of main and the peer's replies          *)
(***************************************************************************)
EXTENDS Integers, Sequences, FiniteSets, TLC

(***************************************************************************)
(* Bounds of the model.                                                    *)
(***************************************************************************)
MaxOps == 3

Ids == {1, 2}
Names == {"x", "y"}
Sizes == {0, 2}
Offsets == {0, 7}
SrcPaths == {"dir/a", "gone"}

Max(a, b) == IF a >= b THEN a ELSE b
Min(a, b) == IF a <= b THEN a ELSE b

Chunks == {<<>>, <<1>>, <<2>>, <<1, 2>>}

Take(s, n) == SubSeq(s, 1, Min(n, Len(s)))
Zeros(n) == [i \in 1..n |-> 0]

(***************************************************************************)
(* State.                                                                  *)
(***************************************************************************)
VARIABLES
    active_sends,      \* FileTransfer.active_sends: id -> path, or NoEntry
    active_receives,   \* FileTransfer.active_receives: id -> FileReceive, or NoEntry
    fs,                \* content of downloads/<name>
    tasks,             \* the running engine calls and handle_message tasks
    nops,              \* calls started so far
    ret,               \* outcome of the call that returned last
    hist,              \* per id: what was applied since its registration
    peers,             \* Network.peers: uuid -> Peer, or NoPeer
    rw,                \* the RwLock around peers: read guards held, FIFO of waiters
    disc,              \* the discovery task
    senders,           \* the send_message calls
    lister,            \* the list_peers call
    wire,              \* per send_message call: connections opened, bytes written
    applied,           \* the registry update the discovery task made last
    conns,             \* inbound connections: bytes sent by the peer, handler position
    delivered,         \* per connection: the messages on_message was called with
    frame,             \* one frame on its way from send_message to handle_connection
    codec,             \* one Message on its way through encode and decode
    cmd                \* the command loop of main: the /file command in progress

engineVars == <<active_sends, active_receives, fs, tasks, nops, ret, hist>>
netVars == <<peers, rw, disc, senders, lister, wire, applied>>
listenVars == <<conns, delivered>>
NotEngine == <<netVars, listenVars, frame, codec, cmd>>
NotNet == <<engineVars, listenVars, frame, codec, cmd>>
NotListen == <<engineVars, netVars, frame, codec, cmd>>
NotFrame == <<engineVars, netVars, listenVars, codec, cmd>>
NotCodec == <<engineVars, netVars, listenVars, frame, cmd>>
vars == <<engineVars, netVars, listenVars, frame, codec, cmd>>

NoEntry == [tracked |-> FALSE]
Idle == [pc |-> "idle"]
NoRet == [op |-> "none"]

(***************************************************************************)
(* Filesystem: a write through a handle lands at the handle's position;    *)
(* a position past the end of the file leaves a hole of zero bytes.        *)
(***************************************************************************)
WriteAt(content, pos, data) ==
    IF data = <<>> THEN content
    ELSE LET padded == IF pos > Len(content)
                       THEN content \o Zeros(pos - Len(content))
                       ELSE content
             n == Max(Len(padded), pos + Len(data))
         IN  [i \in 1..n |->
                IF i > pos /\ i <= pos + Len(data) THEN data[i - pos] ELSE padded[i]]

DownloadPath(name) == name

\* Message variants (src/transfer/mod.rs, enum Message)
Text(content) == [type |-> "Text", content |-> content]
FileOffer(name, size, id) == [type |-> "FileOffer", name |-> name, size |-> size, id |-> id]
FileAccept(id) == [type |-> "FileAccept", id |-> id]
FileReject(id) == [type |-> "FileReject", id |-> id]
FileChunk(id, offset, data) == [type |-> "FileChunk", id |-> id, offset |-> offset, data |-> data]
FileComplete(id) == [type |-> "FileComplete", id |-> id]


(***************************************************************************)
(* Frame codec: bincode 1.x with its default options (fixed-width little-  *)
(* endian integers, u32 variant index, u64 length before strings, byte     *)
(* vectors and the 16 bytes of a Uuid; trailing bytes are accepted).       *)
(* Lengths of 2^24 or more are kept as their bytes.                        *)
(***************************************************************************)
Byte(n, k) == IF k = 0 THEN n % 256
              ELSE IF k = 1 THEN (n \div 256) % 256
              ELSE IF k = 2 THEN (n \div 65536) % 256
              ELSE 0

\* n < 2^24 as w big-endian bytes
BE(n, w) == [i \in 1..w |-> Byte(n, w - i)]

\* n < 2^24 as w little-endian bytes
LE(n, w) == [i \in 1..w |-> Byte(n, i - 1)]

Reverse(s) == [i \in 1..Len(s) |-> s[Len(s) + 1 - i]]

Drop(s, n) == SubSeq(s, Min(n, Len(s)) + 1, Len(s))

Huge == 0 - 1

\* The value of little-endian bytes, or Huge when it is 2^24 or more.
LEValue(b) ==
    IF \E i \in 4..Len(b) : b[i] # 0 THEN Huge
    ELSE b[1] + 256 * b[2] + 65536 * b[3]

NameBytes(n) ==
    CASE n = "x" -> <<120>>
      [] n = "y" -> <<121>>
      [] n = "hi" -> <<104, 105>>
      [] OTHER -> <<>>

BytesName(b) ==
    CASE b = <<120>> -> "x"
      [] b = <<121>> -> "y"
      [] b = <<104, 105>> -> "hi"
      [] OTHER -> ""

\* Uuid as_bytes: 16 bytes, big-endian
UuidBytes(id) == Zeros(15) \o <<id>>

EncStr(n) == LE(Len(NameBytes(n)), 8) \o NameBytes(n)
EncUuid(id) == LE(16, 8) \o UuidBytes(id)
EncVec(d) == LE(Len(d), 8) \o d

VariantIndex(type) ==
    CASE type = "Text" -> 0
      [] type = "FileOffer" -> 1
      [] type = "FileAccept" -> 2
      [] type = "FileReject" -> 3
      [] type = "FileChunk" -> 4
      [] type = "FileComplete" -> 5

\* Message::encode
Encode(m) ==
    LE(VariantIndex(m.type), 4) \o
    CASE m.type = "Text" -> EncStr(m.content)
      [] m.type = "FileOffer" -> EncStr(m.name) \o LE(m.size, 8) \o EncUuid(m.id)
      [] m.type = "FileChunk" -> EncUuid(m.id) \o LE(m.offset, 8) \o EncVec(m.data)
      [] OTHER -> EncUuid(m.id)

DecodeError == [type |-> "DecodeError"]

\* Readers return [ok, val, rest].
Fail == [ok |-> FALSE]
ReadInt(b, w) ==
    IF Len(b) < w THEN Fail
    ELSE [ok |-> TRUE, val |-> LEValue(Take(b, w)), rest |-> Drop(b, w)]

ReadBytes(b) ==
    LET n == ReadInt(b, 8) IN
    IF ~n.ok THEN Fail
    ELSE IF n.val = Huge \/ n.val > Len(n.rest) THEN Fail
    ELSE [ok |-> TRUE, val |-> Take(n.rest, n.val), rest |-> Drop(n.rest, n.val)]

\* String: the bytes must be UTF-8 (the inputs drawn are ASCII or 255).
ReadStr(b) ==
    LET r == ReadBytes(b) IN
    IF ~r.ok THEN Fail
    ELSE IF \E i \in 1..Len(r.val) : r.val[i] >= 128 THEN Fail
    ELSE [ok |-> TRUE, val |-> BytesName(r.val), rest |-> r.rest]

\* Uuid: a byte string of exactly 16 bytes (ids of the model fit the last).
ReadUuid(b) ==
    LET r == ReadBytes(b) IN
    IF ~r.ok THEN Fail
    ELSE IF Len(r.val) # 16 THEN Fail
    ELSE [ok |-> TRUE, val |-> r.val[16], rest |-> r.rest]

\* Message::decode
Decode(b) ==
    LET tag == ReadInt(b, 4) IN
    IF ~tag.ok THEN DecodeError
    ELSE IF tag.val = 0 THEN
        LET c == ReadStr(tag.rest) IN
        IF c.ok THEN Text(c.val) ELSE DecodeError
    ELSE IF tag.val = 1 THEN
        LET n == ReadStr(tag.rest) IN
        IF ~n.ok THEN DecodeError ELSE
        LET z == ReadInt(n.rest, 8) IN
        IF ~z.ok THEN DecodeError ELSE
        LET i == ReadUuid(z.rest) IN
        IF ~i.ok THEN DecodeError ELSE FileOffer(n.val, z.val, i.val)
    ELSE IF tag.val = 4 THEN
        LET i == ReadUuid(tag.rest) IN
        IF ~i.ok THEN DecodeError ELSE
        LET o == ReadInt(i.rest, 8) IN
        IF ~o.ok THEN DecodeError ELSE
        LET d == ReadBytes(o.rest) IN
        IF ~d.ok THEN DecodeError ELSE FileChunk(i.val, o.val, d.val)
    ELSE IF tag.val \in {2, 3, 5} THEN
        LET i == ReadUuid(tag.rest) IN
        IF ~i.ok THEN DecodeError
        ELSE IF tag.val = 2 THEN FileAccept(i.val)
        ELSE IF tag.val = 3 THEN FileReject(i.val)
        ELSE FileComplete(i.val)
    ELSE DecodeError

InMessages ==
    {Text("hi")}
    \cup {FileOffer(n, s, i) : n \in Names, s \in Sizes, i \in Ids}
    \cup {FileAccept(i) : i \in Ids}
    \cup {FileReject(i) : i \in Ids}
    \cup {FileChunk(i, o, d) : i \in Ids, o \in Offsets, d \in Chunks}
    \cup {FileComplete(i) : i \in Ids}

(***************************************************************************)
(* A task is one call in progress. pc is the await point it stands at:     *)
(*   pr_create   prepare_receive before create_dir_all / File::create      *)
(*   pr_insert   prepare_receive before active_receives.write().insert     *)
(*   rc          receive_chunk before active_receives.write()              *)
(*   cp_sends    complete before active_sends.write().remove               *)
(*   cp_receives complete before active_receives.write().remove            *)
(*   ps          prepare_send before fs::metadata                          *)
(*   sc          send_chunk before active_sends.read()                     *)
(* auto marks the FileChunk arm of handle_message, which goes on to        *)
(* complete(id) when receive_chunk returned true.                          *)
(***************************************************************************)
Task(pc, auto, id, name, size, offset, data) ==
    [pc |-> pc, auto |-> auto, id |-> id, name |-> name, size |-> size,
     offset |-> offset, data |-> data]

TaskIds == {1, 2}

\* ended counts the complete(id) calls that returned since the id was last
\* registered (2 stands for two or more).
NoHist == [applied |-> 0, data |-> <<>>, size |-> 0, clean |-> TRUE, ended |-> 0]

EngineInit ==
    /\ active_sends = [i \in Ids |-> NoEntry]
    /\ active_receives = [i \in Ids |-> NoEntry]
    /\ fs = [n \in Names |-> <<>>]
    /\ tasks = [t \in TaskIds |-> Idle]
    /\ nops = 0
    /\ ret = NoRet
    /\ hist = [i \in Ids |-> NoHist]

\* receive.received >= receive.size
IsCompleteStrict(received, size) == received > size
IsComplete(received, size) == received >= size

Finish(t, r) ==
    /\ tasks' = [tasks EXCEPT ![t] = Idle]
    /\ ret' = r

\* A new task takes the first free slot (the slots are interchangeable).
Spawnable(t) ==
    /\ tasks[t] = Idle
    /\ \A u \in TaskIds : u < t => tasks[u] # Idle
    /\ nops < MaxOps

\* a FileChunk arm that drops the result of receive_chunk
on_message_forgets_complete(t, msg) ==
    /\ Spawnable(t)
    /\ nops' = nops + 1
    /\ CASE msg.type = "FileOffer" ->
              /\ tasks' = [tasks EXCEPT ![t] =
                    Task("pr_create", FALSE, msg.id, msg.name, msg.size, 0, <<>>)]
              /\ UNCHANGED ret
         [] msg.type = "FileChunk" ->
              /\ tasks' = [tasks EXCEPT ![t] =
                    Task("rc", FALSE, msg.id, "", 0, msg.offset, msg.data)]
              /\ UNCHANGED ret
         [] OTHER ->
              /\ UNCHANGED tasks
              /\ ret' = [op |-> "handle_message", msg |-> msg]
    /\ UNCHANGED <<active_sends, active_receives, fs, hist, NotEngine>>

\* main.rs: the listener callback spawns handle_message(msg); its match
\* reaches the first await of the arm.
on_message(t, msg) ==
    /\ Spawnable(t)
    /\ nops' = nops + 1
    /\ CASE msg.type = "FileOffer" ->
              /\ tasks' = [tasks EXCEPT ![t] =
                    Task("pr_create", FALSE, msg.id, msg.name, msg.size, 0, <<>>)]
              /\ UNCHANGED ret
         [] msg.type = "FileChunk" ->
              /\ tasks' = [tasks EXCEPT ![t] =
                    Task("rc", TRUE, msg.id, "", 0, msg.offset, msg.data)]
              /\ UNCHANGED ret
         [] OTHER ->
              /\ UNCHANGED tasks
              /\ ret' = [op |-> "handle_message", msg |-> msg]
    /\ UNCHANGED <<active_sends, active_receives, fs, hist, NotEngine>>

\* A direct caller of the engine's public methods.
call_prepare_receive(t, id, name, size) ==
    /\ Spawnable(t)
    /\ nops' = nops + 1
    /\ tasks' = [tasks EXCEPT ![t] = Task("pr_create", FALSE, id, name, size, 0, <<>>)]
    /\ UNCHANGED <<active_sends, active_receives, fs, ret, hist, NotEngine>>

call_receive_chunk(t, id, offset, data) ==
    /\ Spawnable(t)
    /\ nops' = nops + 1
    /\ tasks' = [tasks EXCEPT ![t] = Task("rc", FALSE, id, "", 0, offset, data)]
    /\ UNCHANGED <<active_sends, active_receives, fs, ret, hist, NotEngine>>

call_complete(t, id) ==
    /\ Spawnable(t)
    /\ nops' = nops + 1
    /\ tasks' = [tasks EXCEPT ![t] = Task("cp_sends", FALSE, id, "", 0, 0, <<>>)]
    /\ UNCHANGED <<active_sends, active_receives, fs, ret, hist, NotEngine>>

call_prepare_send(t, path) ==
    /\ Spawnable(t)
    /\ nops' = nops + 1
    /\ tasks' = [tasks EXCEPT ![t] = Task("ps", FALSE, 0, path, 0, 0, <<>>)]
    /\ UNCHANGED <<active_sends, active_receives, fs, ret, hist, NotEngine>>

\* prepare_receive, first half: create_dir_all and File::create, which
\* truncates whatever downloads/<name> held. Either may fail.
prepare_receive_create(t) ==
    /\ tasks[t].pc = "pr_create"
    /\ \/ /\ fs' = [fs EXCEPT ![DownloadPath(tasks[t].name)] = <<>>]
          /\ tasks' = [tasks EXCEPT ![t].pc = "pr_insert"]
          /\ UNCHANGED ret
       \/ /\ Finish(t, [op |-> "prepare_receive", id |-> tasks[t].id, ok |-> FALSE])
          /\ UNCHANGED fs
    /\ UNCHANGED <<active_sends, active_receives, nops, hist, NotEngine>>

\* prepare_receive that keeps the entry an id already has
prepare_receive_keep(t) ==
    LET id == tasks[t].id IN
    /\ tasks[t].pc = "pr_insert"
    /\ IF active_receives[id].tracked
       THEN UNCHANGED <<active_receives, hist>>
       ELSE /\ active_receives' = [active_receives EXCEPT ![id] =
                  [tracked |-> TRUE, path |-> DownloadPath(tasks[t].name), pos |-> 0,
                   size |-> tasks[t].size, received |-> 0]]
            /\ hist' = [hist EXCEPT ![id] = [NoHist EXCEPT !.size = tasks[t].size]]
    /\ Finish(t, [op |-> "prepare_receive", id |-> id, ok |-> TRUE,
                  path |-> DownloadPath(tasks[t].name),
                  replaced |-> FALSE, dropped |-> 0])
    /\ UNCHANGED <<active_sends, fs, nops, NotEngine>>

\* prepare_receive, second half: the insert replaces any entry of the id.
\* replaced and dropped say what the insert returned and the code let go.
prepare_receive_insert(t) ==
    LET id == tasks[t].id IN
    /\ tasks[t].pc = "pr_insert"
    /\ active_receives' = [active_receives EXCEPT ![id] =
          [tracked |-> TRUE, path |-> DownloadPath(tasks[t].name), pos |-> 0,
           size |-> tasks[t].size, received |-> 0]]
    /\ hist' = [hist EXCEPT ![id] = [NoHist EXCEPT !.size = tasks[t].size]]
    /\ Finish(t, [op |-> "prepare_receive", id |-> id, ok |-> TRUE,
                  path |-> DownloadPath(tasks[t].name),
                  replaced |-> active_receives[id].tracked,
                  dropped |-> IF active_receives[id].tracked
                              THEN active_receives[id].received ELSE 0])
    /\ UNCHANGED <<active_sends, fs, nops, NotEngine>>

\* receive_chunk on a tracked entry whose write_all succeeds: the data goes
\* through the entry's own handle, received grows by data.len().
ApplySeek(e, content, offset, data) ==
    [content |-> WriteAt(content, offset, data),
     entry |-> [e EXCEPT !.pos = offset + Len(data), !.received = @ + Len(data)]]

Apply(e, content, offset, data) ==
    [content |-> WriteAt(content, e.pos, data),
     entry |-> [e EXCEPT !.pos = @ + Len(data), !.received = @ + Len(data)]]

\* receive_chunk: the whole body runs under active_receives.write().
receive_chunk(t) ==
    LET id == tasks[t].id
        data == tasks[t].data
        e == active_receives[id]
        a == Apply(e, fs[e.path], tasks[t].offset, data)
    IN
    /\ tasks[t].pc = "rc"
    /\ IF ~e.tracked
       THEN /\ Finish(t, [op |-> "receive_chunk", id |-> id, ok |-> FALSE])
            /\ UNCHANGED <<active_receives, fs, hist>>
       ELSE \/ \* write_all succeeds
               LET done == IsComplete(a.entry.received, e.size)
                   h == [hist[id] EXCEPT !.applied = @ + Len(data), !.data = @ \o data]
               IN
               /\ fs' = [fs EXCEPT ![e.path] = a.content]
               /\ active_receives' = [active_receives EXCEPT ![id] = a.entry]
               /\ hist' = [hist EXCEPT ![id] = h]
               /\ ret' = [op |-> "receive_chunk", id |-> id, ok |-> TRUE, val |-> done,
                          cum |-> h.applied, S |-> h.size, offset |-> tasks[t].offset]
               /\ tasks' = [tasks EXCEPT ![t] =
                     IF tasks[t].auto /\ done
                     THEN [tasks[t] EXCEPT !.pc = "cp_sends"]
                     ELSE Idle]
            \/ \* write_all fails after k < len bytes reached the file
               \E k \in 0..(Len(data) - 1) :
               /\ fs' = [fs EXCEPT ![e.path] = WriteAt(@, e.pos, Take(data, k))]
               /\ active_receives' = [active_receives EXCEPT ![id].pos = @ + k]
               /\ hist' = [hist EXCEPT ![id].clean = FALSE]
               /\ Finish(t, [op |-> "receive_chunk", id |-> id, ok |-> FALSE])
    /\ UNCHANGED <<active_sends, nops, NotEngine>>

\* complete that stops at the first table holding the id
complete_first_found(t) ==
    /\ tasks[t].pc = "cp_sends"
    /\ active_sends' = [active_sends EXCEPT ![tasks[t].id] = NoEntry]
    /\ IF active_sends[tasks[t].id].tracked
       THEN Finish(t, [op |-> "complete", id |-> tasks[t].id, ok |-> TRUE])
       ELSE tasks' = [tasks EXCEPT ![t].pc = "cp_receives"] /\ UNCHANGED ret
    /\ UNCHANGED <<active_receives, fs, nops, hist, NotEngine>>

\* complete: two separate lock acquisitions.
complete_sends(t) ==
    /\ tasks[t].pc = "cp_sends"
    /\ active_sends' = [active_sends EXCEPT ![tasks[t].id] = NoEntry]
    /\ tasks' = [tasks EXCEPT ![t].pc = "cp_receives"]
    /\ UNCHANGED <<active_receives, fs, nops, ret, hist, NotEngine>>

complete_receives(t) ==
    /\ tasks[t].pc = "cp_receives"
    /\ active_receives' = [active_receives EXCEPT ![tasks[t].id] = NoEntry]
    /\ hist' = [hist EXCEPT ![tasks[t].id] =
          [NoHist EXCEPT !.ended = Min(hist[tasks[t].id].ended + 1, 2)]]
    /\ Finish(t, [op |-> "complete", id |-> tasks[t].id, ok |-> TRUE])
    /\ UNCHANGED <<active_sends, fs, nops, NotEngine>>

\* Files a sender may offer: path -> length (absent paths have no metadata).
SrcLen(path) == IF path = "dir/a" THEN 150000 ELSE -1
FileName(path) == IF path = "dir/a" THEN "a" ELSE path

\* Uuid::new_v4(): 122 random bits, an id nothing of the program holds yet.
\* An id no table and no call refers to any more stands for a new one.
Fresh(id) ==
    /\ ~active_sends[id].tracked
    /\ ~active_receives[id].tracked
    /\ \A t \in TaskIds : tasks[t] # Idle => tasks[t].id # id

\* prepare_send with the insert ahead of the metadata call
InsertThenStat(sends, id, path) == [sends EXCEPT ![id] = [tracked |-> TRUE, path |-> path]]

\* prepare_send returns through `?` when fs::metadata fails: nothing inserted
InsertSend(sends, id, path) ==
    IF SrcLen(path) < 0 THEN sends
    ELSE [sends EXCEPT ![id] = [tracked |-> TRUE, path |-> path]]

\* prepare_send: Uuid::new_v4(), metadata, insert.
prepare_send(t) ==
    /\ tasks[t].pc = "ps"
    /\ \E id \in Ids :
          /\ Fresh(id)
          /\ active_sends' = InsertSend(active_sends, id, tasks[t].name)
          /\ IF SrcLen(tasks[t].name) < 0
             THEN /\ Finish(t, [op |-> "prepare_send", ok |-> FALSE,
                                path |-> tasks[t].name])
                  /\ UNCHANGED hist
             ELSE /\ hist' = [hist EXCEPT ![id] = NoHist]
                  /\ Finish(t, [op |-> "prepare_send", ok |-> TRUE, id |-> id,
                                path |-> tasks[t].name,
                                name |-> FileName(tasks[t].name),
                                len |-> SrcLen(tasks[t].name)])
    /\ UNCHANGED <<active_receives, fs, nops, NotEngine>>

CHUNK_SIZE == 65536

\* Offsets handed to send_chunk: u64, as their 8 little-endian bytes
\* (0, 147456, 150000 and 2^63).
SendOffsets ==
    {LE(0, 8), LE(147456, 8), LE(150000, 8), <<0, 0, 0, 0, 0, 0, 0, 128>>}

call_send_chunk(t, id, offset) ==
    /\ Spawnable(t)
    /\ nops' = nops + 1
    /\ tasks' = [tasks EXCEPT ![t] = Task("sc", FALSE, id, "", 0, offset, <<>>)]
    /\ UNCHANGED <<active_sends, active_receives, fs, ret, hist, NotEngine>>

\* seek(SeekFrom::Start(offset)): the offset reaches lseek as an i64, and a
\* negative one is refused (EINVAL).
SeekFails(offset) == offset[8] >= 128

\* file.read(&mut buffer) on CHUNK_SIZE bytes: nothing at or past the end of
\* the file, else at least one byte and at most what is left or fits.
ReadCounts(pos, len) ==
    IF pos = Huge \/ pos >= len THEN {0}
    ELSE {1, Min(CHUNK_SIZE, len - pos)}

\* send_chunk on a tracked path: open, seek, one read. The bytes returned
\* are named by where they start in the file and how many.
send_chunk_read(t, path) ==
    LET offset == tasks[t].offset
        r == [op |-> "send_chunk", id |-> tasks[t].id, offset |-> offset]
    IN
    \/ \* File::open fails
       Finish(t, r @@ [ok |-> FALSE, err |-> "open"])
    \/ IF SeekFails(offset)
       THEN Finish(t, r @@ [ok |-> FALSE, err |-> "seek"])
       ELSE \E n \in ReadCounts(LEValue(offset), SrcLen(path)) :
               Finish(t, r @@ [ok |-> TRUE, some |-> n > 0,
                               start |-> LEValue(offset), n |-> n,
                               len |-> SrcLen(path)])

\* send_chunk that takes an unknown id for a file with nothing left to read
send_chunk_unknown_is_eof(t) ==
    /\ tasks[t].pc = "sc"
    /\ IF ~active_sends[tasks[t].id].tracked
       THEN Finish(t, [op |-> "send_chunk", id |-> tasks[t].id,
                       offset |-> tasks[t].offset, ok |-> TRUE, some |-> FALSE,
                       start |-> 0, n |-> 0, len |-> 0])
       ELSE send_chunk_read(t, active_sends[tasks[t].id].path)
    /\ UNCHANGED <<active_sends, active_receives, fs, nops, hist, NotEngine>>

\* send_chunk: the lookup under active_sends.read(), then the read.
send_chunk(t) ==
    /\ tasks[t].pc = "sc"
    /\ IF ~active_sends[tasks[t].id].tracked
       THEN Finish(t, [op |-> "send_chunk", id |-> tasks[t].id,
                       offset |-> tasks[t].offset, ok |-> FALSE,
                       err |-> "File not found"])
       ELSE send_chunk_read(t, active_sends[tasks[t].id].path)
    /\ UNCHANGED <<active_sends, active_receives, fs, nops, hist, NotEngine>>

EngineNext ==
    \/ \E t \in TaskIds, m \in InMessages : on_message(t, m)
    \/ \E t \in TaskIds, i \in Ids, n \in Names, s \in Sizes : call_prepare_receive(t, i, n, s)
    \/ \E t \in TaskIds, i \in Ids, o \in Offsets, d \in Chunks : call_receive_chunk(t, i, o, d)
    \/ \E t \in TaskIds, i \in Ids : call_complete(t, i)
    \/ \E t \in TaskIds, p \in SrcPaths : call_prepare_send(t, p)
    \/ \E t \in TaskIds : prepare_receive_create(t)
    \/ \E t \in TaskIds : prepare_receive_insert(t)
    \/ \E t \in TaskIds : receive_chunk(t)
    \/ \E t \in TaskIds : complete_sends(t)
    \/ \E t \in TaskIds : complete_receives(t)
    \/ \E t \in TaskIds : prepare_send(t)
    \/ \E t \in TaskIds, i \in Ids, o \in SendOffsets : call_send_chunk(t, i, o)
    \/ \E t \in TaskIds : send_chunk(t)

(***************************************************************************)
(* Inbound dispatch alone: every call is a handle_message task spawned by  *)
(* the listener callback. The runtime polls every spawned task again and   *)
(* the locks are released after each step, so each task's next step is     *)
(* taken in the end.                                                       *)
(***************************************************************************)
TaskStep(t) ==
    \/ prepare_receive_create(t)
    \/ prepare_receive_insert(t)
    \/ receive_chunk(t)
    \/ complete_sends(t)
    \/ complete_receives(t)

DispatchNext ==
    \/ \E t \in TaskIds, m \in InMessages : on_message(t, m)
    \/ \E t \in TaskIds : prepare_receive_create(t)
    \/ \E t \in TaskIds : prepare_receive_insert(t)
    \/ \E t \in TaskIds : receive_chunk(t)
    \/ \E t \in TaskIds : complete_sends(t)
    \/ \E t \in TaskIds : complete_receives(t)

DispatchFairness == \A t \in TaskIds : WF_vars(TaskStep(t))

(***************************************************************************)
(* FileChunk messages alone, handled by concurrent tasks, from any state   *)
(* that offers handled one after the other leave behind: each id untracked *)
(* or tracked with a name and a size, nothing received, the files empty.   *)
(***************************************************************************)
Registered(name, size) ==
    [tracked |-> TRUE, path |-> DownloadPath(name), pos |-> 0, size |-> size,
     received |-> 0]

ChunkInit ==
    /\ \E f \in [Ids -> {NoEntry} \cup {Registered(n, z) : n \in Names, z \in Sizes}] :
          /\ active_receives = f
          /\ hist = [i \in Ids |->
                IF f[i].tracked THEN [NoHist EXCEPT !.size = f[i].size] ELSE NoHist]
    /\ active_sends = [i \in Ids |-> NoEntry]
    /\ fs = [n \in Names |-> <<>>]
    /\ tasks = [t \in TaskIds |-> Idle]
    /\ nops = 0
    /\ ret = NoRet

ChunkMessages == {FileChunk(i, o, d) : i \in Ids, o \in Offsets, d \in Chunks}

ChunksNext ==
    \/ \E t \in TaskIds, m \in ChunkMessages : on_message(t, m)
    \/ \E t \in TaskIds : receive_chunk(t)
    \/ \E t \in TaskIds : complete_sends(t)
    \/ \E t \in TaskIds : complete_receives(t)

(***************************************************************************)
(* Network (src/network/mod.rs): peer registry, discovery, senders.        *)
(*                                                                         *)
(* peers is behind a tokio RwLock, which queues its waiters first-in       *)
(* first-out: a reader that arrives behind a waiting writer waits too.     *)
(* The guards of the discovery task and of list_peers are dropped in the   *)
(* step that takes them; the guard of send_message lives to its return.    *)
(***************************************************************************)
my_id == 0
Uuids == {0, 1, 2, 3}
MyName == "me"
FullNames == {"me", "p"}
Addrs == {"10.0.0.2:9876"}
Senders == {"s1"}
OutMessages == {Text("hi")}

NoPeer == [present |-> FALSE, id |-> 0, name |-> "", addr |-> ""]
Peer(id, name, addr) == [present |-> TRUE, id |-> id, name |-> name, addr |-> addr]

\* mdns_sd::ServiceEvent
ServiceResolved(fullname, addr) == [kind |-> "ServiceResolved", fullname |-> fullname, addr |-> addr]
ServiceRemoved(fullname) == [kind |-> "ServiceRemoved", fullname |-> fullname]
OtherEvent == [kind |-> "Other"]
ServiceEvents ==
    {ServiceResolved(n, a) : n \in FullNames, a \in Addrs \cup {"none"}}
    \cup {ServiceRemoved(n) : n \in FullNames}
    \cup {OtherEvent}

SenderIdle == [pc |-> "idle", result |-> "none"]
NoWire == [connects |-> 0, bytes |-> <<>>]
NoUpdate == [kind |-> "none"]

NetIdle ==
    /\ peers = [u \in Uuids |-> NoPeer]
    /\ rw = [readers |-> {}, queue |-> <<>>]
    /\ disc = [pc |-> "recv"]
    /\ senders = [s \in Senders |-> SenderIdle]
    /\ lister = [pc |-> "idle"]
    /\ wire = [s \in Senders |-> NoWire]
    /\ applied = NoUpdate

\* RwLock: the waiter at the head of the queue gets the lock when no
\* guard in its way is held (write guards never outlive a step).
Grantable(who) ==
    /\ rw.queue # <<>>
    /\ Head(rw.queue).who = who
    /\ Head(rw.queue).mode = "write" => rw.readers = {}

Enqueue(who, mode) == [rw EXCEPT !.queue = Append(@, [who |-> who, mode |-> mode])]
Dequeued == [rw EXCEPT !.queue = Tail(@)]
Released(who) == [rw EXCEPT !.readers = @ \ {who}]

\* a removal that drops one entry of the name only
RetainById(reg, fullname) ==
    LET hit == {u \in Uuids : reg[u].present /\ reg[u].name = fullname}
        first == IF hit = {} THEN {} ELSE {CHOOSE u \in hit : \A v \in hit : u <= v}
    IN  [u \in Uuids |-> IF u \in first THEN NoPeer ELSE reg[u]]

\* peers.retain(|_, p| p.name != fullname)
Retain(reg, fullname) ==
    [u \in Uuids |-> IF reg[u].present /\ reg[u].name = fullname THEN NoPeer ELSE reg[u]]

\* peers.insert(peer.id, peer)
Insert(reg, peer) == [reg EXCEPT ![peer.id] = peer]

\* self.peers.read().await.values().cloned().collect()
Values(reg) == {reg[u] : u \in {v \in Uuids : reg[v].present}}

\* Discovery task: one event received; the Peer is built (with a fresh
\* random id) before the write lock is asked for.
disc_recv(ev) ==
    /\ disc.pc = "recv"
    /\ \/ /\ ev.kind = "ServiceResolved"
          /\ \E id \in Uuids :
                LET peer == Peer(id, ev.fullname, ev.addr) IN
                IF ev.addr # "none" /\ peer.id # my_id
                THEN /\ disc' = [pc |-> "wait_write", op |-> "insert", peer |-> peer]
                     /\ rw' = Enqueue("disc", "write")
                ELSE UNCHANGED <<disc, rw>>
       \/ /\ ev.kind = "ServiceRemoved"
          /\ disc' = [pc |-> "wait_write", op |-> "retain", fullname |-> ev.fullname]
          /\ rw' = Enqueue("disc", "write")
       \/ /\ ev.kind = "Other"
          /\ UNCHANGED <<disc, rw>>
    /\ UNCHANGED <<peers, senders, lister, wire, applied, NotNet>>

\* Discovery task: the write guard is granted, the registry updated.
disc_apply ==
    /\ disc.pc = "wait_write"
    /\ Grantable("disc")
    /\ rw' = Dequeued
    /\ IF disc.op = "insert"
       THEN /\ peers' = Insert(peers, disc.peer)
            /\ applied' = [kind |-> "insert", name |-> disc.peer.name, n |-> 1]
       ELSE /\ peers' = Retain(peers, disc.fullname)
            /\ applied' = [kind |-> "retain", name |-> disc.fullname,
                           n |-> Cardinality({u \in Uuids : peers[u].present
                                                  /\ peers[u].name = disc.fullname})]
    /\ disc' = [pc |-> "recv"]
    /\ UNCHANGED <<senders, lister, wire, NotNet>>

\* list_peers: asks for the read guard; the step that gets it returns
\* Values(peers) as of that step.
list_peers_call ==
    /\ lister.pc = "idle"
    /\ lister' = [lister EXCEPT !.pc = "wait_read"]
    /\ rw' = Enqueue("list", "read")
    /\ UNCHANGED <<peers, disc, senders, wire, applied, NotNet>>

list_peers ==
    /\ lister.pc = "wait_read"
    /\ Grantable("list")
    /\ rw' = Dequeued
    /\ lister' = [pc |-> "idle"]
    /\ UNCHANGED <<peers, disc, senders, wire, applied, NotNet>>

\* data.len() as u32, to_be_bytes()
AsU32(limbs) == Take(limbs, 4)
ToBeBytes(limbs) == Reverse(limbs)
LenPrefix(data) == ToBeBytes(AsU32(LE(Len(data), 8)))

\* send_message: self.peers.read().await
send_message_call(s, peer_id, msg) ==
    /\ senders[s].pc = "idle"
    /\ senders' = [senders EXCEPT ![s] =
          [pc |-> "wait_read", result |-> "none", peer_id |-> peer_id, msg |-> msg,
           addr |-> "", data |-> <<>>]]
    /\ wire' = [wire EXCEPT ![s] = NoWire]
    /\ rw' = Enqueue(s, "read")
    /\ UNCHANGED <<peers, disc, lister, applied, NotNet>>

Return(s, result) == [pc |-> "idle", result |-> result]

\* a lookup that never fails
FoundAlways(reg, peer_id) == TRUE

\* the peer is present in the registry
Found(reg, peer_id) == reg[peer_id].present

\* send_message: the read guard is granted; peers.get(&peer_id)
send_message_lookup(s) ==
    /\ senders[s].pc = "wait_read"
    /\ Grantable(s)
    /\ IF Found(peers, senders[s].peer_id)
       THEN /\ rw' = [Dequeued EXCEPT !.readers = @ \cup {s}]
            /\ senders' = [senders EXCEPT ![s].pc = "connect",
                                          ![s].addr = peers[senders[s].peer_id].addr]
       ELSE /\ rw' = Dequeued
            /\ senders' = [senders EXCEPT ![s] = Return(s, "PeerNotFound")]
    /\ UNCHANGED <<peers, disc, lister, wire, applied, NotNet>>

\* TcpStream::connect(&peer.addr), then msg.encode()
send_message_connect(s) ==
    /\ senders[s].pc = "connect"
    /\ wire' = [wire EXCEPT ![s].connects = @ + 1]
    /\ \/ /\ senders' = [senders EXCEPT ![s].pc = "write_len", ![s].data = Encode(senders[s].msg)]
          /\ UNCHANGED rw
       \/ /\ senders' = [senders EXCEPT ![s] = Return(s, "ConnectionError")]
          /\ rw' = Released(s)
    /\ UNCHANGED <<peers, disc, lister, applied, NotNet>>

\* stream.write_all(&len.to_be_bytes())
send_message_write_len(s) ==
    /\ senders[s].pc = "write_len"
    /\ \/ /\ wire' = [wire EXCEPT ![s].bytes = @ \o LenPrefix(senders[s].data)]
          /\ senders' = [senders EXCEPT ![s].pc = "write_data"]
          /\ UNCHANGED rw
       \/ /\ senders' = [senders EXCEPT ![s] = Return(s, "IoError")]
          /\ rw' = Released(s)
          /\ UNCHANGED wire
    /\ UNCHANGED <<peers, disc, lister, applied, NotNet>>

\* stream.write_all(&data); a failed write may have sent part of it
send_message_write_data(s) ==
    /\ senders[s].pc = "write_data"
    /\ \/ /\ wire' = [wire EXCEPT ![s].bytes = @ \o senders[s].data]
          /\ senders' = [senders EXCEPT ![s].pc = "flush"]
          /\ UNCHANGED rw
       \/ /\ \E k \in {0, Len(senders[s].data) \div 2} :
                wire' = [wire EXCEPT ![s].bytes = @ \o Take(senders[s].data, k)]
          /\ senders' = [senders EXCEPT ![s] = Return(s, "IoError")]
          /\ rw' = Released(s)
    /\ UNCHANGED <<peers, disc, lister, applied, NotNet>>

\* stream.flush(); Ok(())
send_message_flush(s) ==
    /\ senders[s].pc = "flush"
    /\ \/ senders' = [senders EXCEPT ![s] = Return(s, "Ok")]
       \/ senders' = [senders EXCEPT ![s] = Return(s, "IoError")]
    /\ rw' = Released(s)
    /\ UNCHANGED <<peers, disc, lister, wire, applied, NotNet>>

NetNext ==
    \/ \E ev \in ServiceEvents : disc_recv(ev)
    \/ disc_apply
    \/ list_peers_call
    \/ list_peers
    \/ \E s \in Senders, u \in Uuids, m \in OutMessages : send_message_call(s, u, m)
    \/ \E s \in Senders : send_message_lookup(s)
    \/ \E s \in Senders : send_message_connect(s)
    \/ \E s \in Senders : send_message_write_len(s)
    \/ \E s \in Senders : send_message_write_data(s)
    \/ \E s \in Senders : send_message_flush(s)

(***************************************************************************)
(* Listener (src/network/mod.rs): the accept loop spawns one task per      *)
(* connection; each reads one frame and calls on_message once.             *)
(*                                                                         *)
(* A connection holds the bytes its peer sends before it closes (stream),  *)
(* how many have arrived (avail), whether the peer has closed or reset     *)
(* it, and the handler's position:                                         *)
(*   none      no connection yet        pending   waiting in accept        *)
(*   read_len  read_exact(len_buf)      read_body read_exact(buffer)       *)
(*   done      handle_connection returned (outcome "ok" or "err")          *)
(***************************************************************************)
ConnIds == {1, 2}

Frame(m) == LenPrefix(Encode(m)) \o Encode(m)

\* What a peer may send: whole frames, frames cut short, frames whose
\* prefix is wrong, payloads that do not decode, bytes after the frame.
GoodMessages == {Text("hi"), FileAccept(1), FileChunk(2, 0, <<1>>)}
InStreams ==
    {Frame(m) : m \in GoodMessages}
    \cup {Take(Frame(Text("hi")), k) : k \in {0, 2, 4, 10}}
    \cup {Frame(Text("hi")) \o <<7>>}
    \cup {<<0, 0, 0, 6>> \o Encode(Text("hi"))}
    \cup {<<0, 0, 0, 20>> \o Encode(Text("hi"))}
    \cup {<<0, 0, 0, 0>>}
    \cup {<<255, 255, 255, 255>> \o Encode(Text("hi"))}
    \cup {<<0, 0, 0, 4>> \o LE(9, 4)}
    \cup {<<0, 0, 0, 13>> \o LE(0, 4) \o LE(1, 8) \o <<255>>}

NoConn == [pc |-> "none", stream |-> <<>>, avail |-> 0, closed |-> FALSE,
           reset |-> FALSE, len |-> 0, outcome |-> "none"]

ListenIdle ==
    /\ conns = [c \in ConnIds |-> NoConn]
    /\ delivered = [c \in ConnIds |-> <<>>]

\* u32::from_be_bytes(len_buf) as usize
FromBeBytes(buf) == LEValue(Reverse(buf))

\* The peer connects; the bytes it is going to send are fixed here.
peer_connect(c, stream) ==
    /\ conns[c].pc = "none"
    /\ conns' = [conns EXCEPT ![c] = [NoConn EXCEPT !.pc = "pending", !.stream = stream]]
    /\ UNCHANGED <<delivered, NotListen>>

\* More of the peer's bytes arrive: up to the middle of the prefix, its
\* end, the middle of what follows, or the last byte.
Arrivals(stream) == {2, 4, 4 + ((Len(stream) - 4) \div 2), Len(stream)}

peer_send(c) ==
    /\ conns[c].pc # "none"
    /\ ~conns[c].closed /\ ~conns[c].reset
    /\ \E n \in Arrivals(conns[c].stream) :
          /\ n > conns[c].avail
          /\ n <= Len(conns[c].stream)
          /\ conns' = [conns EXCEPT ![c].avail = n]
    /\ UNCHANGED <<delivered, NotListen>>

\* The peer closes after its last byte.
peer_close(c) ==
    /\ conns[c].pc # "none"
    /\ ~conns[c].closed /\ ~conns[c].reset
    /\ conns[c].avail = Len(conns[c].stream)
    /\ conns' = [conns EXCEPT ![c].closed = TRUE]
    /\ UNCHANGED <<delivered, NotListen>>

\* The connection breaks.
peer_reset(c) ==
    /\ conns[c].pc \in {"pending", "read_len", "read_body"}
    /\ ~conns[c].closed /\ ~conns[c].reset
    /\ conns' = [conns EXCEPT ![c].reset = TRUE]
    /\ UNCHANGED <<delivered, NotListen>>

\* start_listener: accept() returned a connection; its handler is spawned
\* and the loop is back at accept().
CanAcceptSerial(c) ==
    /\ conns[c].pc = "pending"
    /\ \A d \in ConnIds : conns[d].pc \notin {"read_len", "read_body"}
CanAccept(c) == conns[c].pc = "pending"

accept(c) ==
    /\ CanAccept(c)
    /\ conns' = [conns EXCEPT ![c].pc = "read_len"]
    /\ UNCHANGED <<delivered, NotListen>>

\* stream.read_exact(buf) of n bytes after the first `from`: the bytes once
\* all n have arrived, an error on end of stream or reset, pending otherwise.
ReadSome(cn, from, n) ==
    IF cn.reset THEN [st |-> "err"]
    ELSE IF n # Huge /\ (cn.avail > from \/ n = 0)
    THEN [st |-> "ok",
          buf |-> [i \in 1..n |-> IF from + i <= cn.avail THEN cn.stream[from + i] ELSE 0]]
    ELSE IF cn.closed THEN [st |-> "err"]
    ELSE [st |-> "pending"]
ReadExact(cn, from, n) ==
    IF cn.reset THEN [st |-> "err"]
    ELSE IF n # Huge /\ cn.avail >= from + n
    THEN [st |-> "ok", buf |-> SubSeq(cn.stream, from + 1, from + n)]
    ELSE IF cn.closed THEN [st |-> "err"]
    ELSE [st |-> "pending"]

\* handle_connection: the length prefix
read_len(c) ==
    LET r == ReadExact(conns[c], 0, 4) IN
    /\ conns[c].pc = "read_len"
    /\ r.st # "pending"
    /\ conns' = [conns EXCEPT ![c] =
          IF r.st = "ok"
          THEN [@ EXCEPT !.pc = "read_body", !.len = FromBeBytes(r.buf)]
          ELSE [@ EXCEPT !.pc = "done", !.outcome = "err"]]
    /\ UNCHANGED <<delivered, NotListen>>

\* handle_connection: the payload, Message::decode, on_message(msg)
read_body(c) ==
    LET r == ReadExact(conns[c], 4, conns[c].len)
        msg == Decode(r.buf)
    IN
    /\ conns[c].pc = "read_body"
    /\ r.st # "pending"
    /\ IF r.st = "ok" /\ msg # DecodeError
       THEN /\ delivered' = [delivered EXCEPT ![c] = Append(@, msg)]
            /\ conns' = [conns EXCEPT ![c].pc = "done", ![c].outcome = "ok"]
       ELSE /\ conns' = [conns EXCEPT ![c].pc = "done", ![c].outcome = "err"]
            /\ UNCHANGED delivered
    /\ UNCHANGED NotListen

ListenNext ==
    \/ \E c \in ConnIds, st \in InStreams : peer_connect(c, st)
    \/ \E c \in ConnIds : peer_send(c)
    \/ \E c \in ConnIds : peer_close(c)
    \/ \E c \in ConnIds : peer_reset(c)
    \/ \E c \in ConnIds : accept(c)
    \/ \E c \in ConnIds : read_len(c)
    \/ \E c \in ConnIds : read_body(c)

(***************************************************************************)
(* One frame at the real width of its length fields. The payload is held   *)
(* by its length alone: a usize, kept as its 8 little-endian bytes.        *)
(***************************************************************************)
\* the bytes of a usize plus k, k < 256
RECURSIVE CarryIn(_, _, _)
CarryIn(a, k, i) == IF i = 1 THEN k ELSE (a[i - 1] + CarryIn(a, k, i - 1)) \div 256
AddSmall(a, k) == [i \in 1..Len(a) |-> (a[i] + CarryIn(a, k, i)) % 256]

\* lengths of the variable part of a message: 0, 1, 2, and around 2^32
VarLens ==
    {LE(0, 8), LE(1, 8), LE(2, 8), LE(70000, 8),
     <<211, 255, 255, 255, 0, 0, 0, 0>>, <<212, 255, 255, 255, 0, 0, 0, 0>>,
     <<243, 255, 255, 255, 0, 0, 0, 0>>, <<244, 255, 255, 255, 0, 0, 0, 0>>,
     <<255, 255, 255, 255, 0, 0, 0, 0>>, <<0, 0, 0, 0, 1, 0, 0, 0>>}

\* bytes bincode writes around the variable part
HeaderLen(type) ==
    CASE type = "Text" -> 12
      [] type = "FileOffer" -> 44
      [] type = "FileChunk" -> 44
      [] OTHER -> 28

FrameIdle == frame = [pc |-> "idle"]

FrameStart(type, n) ==
    [pc |-> "encode", type |-> type, n |-> n, data_len |-> LE(0, 8),
     prefix |-> <<>>, written |-> LE(0, 8), len |-> LE(0, 8), got |-> LE(0, 8)]

FrameInit ==
    frame \in {FrameStart(t, n) : t \in {"Text", "FileOffer", "FileChunk"}, n \in VarLens}
              \cup {FrameStart(t, LE(0, 8)) : t \in {"FileAccept", "FileReject", "FileComplete"}}

\* let data = msg.encode()?
frame_encode ==
    /\ frame.pc = "encode"
    /\ frame' = [frame EXCEPT !.pc = "write_len",
                              !.data_len = AddSmall(frame.n, HeaderLen(frame.type))]
    /\ UNCHANGED NotFrame

\* let len = data.len() as u32; stream.write_all(&len.to_be_bytes())
frame_write_len ==
    /\ frame.pc = "write_len"
    /\ frame' = [frame EXCEPT !.pc = "write_data",
                              !.prefix = ToBeBytes(AsU32(frame.data_len))]
    /\ UNCHANGED NotFrame

\* stream.write_all(&data); stream.flush()
frame_write_data ==
    /\ frame.pc = "write_data"
    /\ frame' = [frame EXCEPT !.pc = "read_len", !.written = frame.data_len]
    /\ UNCHANGED NotFrame

\* handle_connection: u32::from_be_bytes(len_buf) as usize
frame_read_len ==
    /\ frame.pc = "read_len"
    /\ frame' = [frame EXCEPT !.pc = "read_body", !.len = Reverse(frame.prefix) \o Zeros(4)]
    /\ UNCHANGED NotFrame

\* handle_connection: read_exact of len bytes (never more than were written)
frame_read_body ==
    /\ frame.pc = "read_body"
    /\ frame' = [frame EXCEPT !.pc = "done", !.got = frame.len]
    /\ UNCHANGED NotFrame

FrameNext ==
    \/ frame_encode
    \/ frame_write_len
    \/ frame_write_data
    \/ frame_read_len
    \/ frame_read_body

(***************************************************************************)
(* A Message through Message::encode and then Message::decode.             *)
(***************************************************************************)
CodecNames == {"", "x", "y", "hi"}
CodecInts == {0, 1, 255, 256, 65535, 65536, 16777215}
CodecIds == {0, 1, 255}
CodecData == {<<>>, <<0>>, <<255>>, <<1, 2>>}

CodecMessages ==
    {Text(c) : c \in CodecNames}
    \cup {FileOffer(n, z, i) : n \in CodecNames, z \in CodecInts, i \in CodecIds}
    \cup {FileAccept(i) : i \in CodecIds}
    \cup {FileReject(i) : i \in CodecIds}
    \cup {FileChunk(i, o, d) : i \in CodecIds, o \in CodecInts, d \in CodecData}
    \cup {FileComplete(i) : i \in CodecIds}

CodecIdle == codec = [pc |-> "idle"]
CodecInit == \E m \in CodecMessages : codec = [pc |-> "start", msg |-> m]

codec_encode ==
    /\ codec.pc = "start"
    /\ codec' = [pc |-> "encoded", msg |-> codec.msg, bytes |-> Encode(codec.msg)]
    /\ UNCHANGED NotCodec

codec_decode ==
    /\ codec.pc = "encoded"
    /\ codec' = [pc |-> "decoded", msg |-> codec.msg, bytes |-> codec.bytes,
                 out |-> Decode(codec.bytes)]
    /\ UNCHANGED NotCodec

CodecNext == codec_encode \/ codec_decode

(***************************************************************************)
(* The command loop of main (src/main.rs): one command at a time. Only     *)
(* /file touches the engine: prepare_send, then send_message with the      *)
(* offer. out is what the loop printed for the last command.               *)
(***************************************************************************)
CmdIdle == cmd = [pc |-> "prompt", out |-> "none"]

\* "/file <peer_id> <path>" was read; Uuid::parse_str on the first word
cmd_file(valid, path) ==
    /\ cmd.pc = "prompt"
    /\ cmd' = IF valid THEN [pc |-> "file_prepare", path |-> path]
              ELSE [pc |-> "prompt", out |-> "Invalid peer ID"]
    /\ UNCHANGED <<engineVars, netVars, listenVars, frame, codec>>

\* file_transfer.prepare_send(path).await
cmd_prepare_send ==
    /\ cmd.pc = "file_prepare"
    /\ \E id \in Ids :
          /\ Fresh(id)
          /\ active_sends' = InsertSend(active_sends, id, cmd.path)
          /\ IF SrcLen(cmd.path) < 0
             THEN /\ cmd' = [pc |-> "prompt", out |-> "Failed to prepare file"]
                  /\ UNCHANGED hist
             ELSE /\ cmd' = [pc |-> "file_send",
                             msg |-> FileOffer(FileName(cmd.path), SrcLen(cmd.path), id)]
                  /\ hist' = [hist EXCEPT ![id] = NoHist]
    /\ UNCHANGED <<active_receives, fs, tasks, nops, ret, netVars, listenVars, frame, codec>>

\* network.send_message(peer_id, msg).await returned: Ok, or an error (peer
\* not found, connect or write failed); either way the loop goes on.
cmd_send_offer(sent) ==
    /\ cmd.pc = "file_send"
    /\ cmd' = [pc |-> "prompt",
               out |-> IF sent THEN "File offer sent" ELSE "Failed to send offer",
               id |-> cmd.msg.id]
    /\ UNCHANGED <<engineVars, netVars, listenVars, frame, codec>>

\* What the peer may answer to an offer.
Replies ==
    {FileAccept(i) : i \in Ids} \cup {FileReject(i) : i \in Ids}
    \cup {FileComplete(i) : i \in Ids}

CmdNext ==
    \/ \E v \in BOOLEAN, p \in SrcPaths : cmd_file(v, p)
    \/ cmd_prepare_send
    \/ \E b \in BOOLEAN : cmd_send_offer(b)
    \/ \E t \in TaskIds, m \in Replies : on_message(t, m)

(***************************************************************************)
(* Specifications.                                                         *)
(***************************************************************************)
Init == EngineInit /\ NetIdle /\ ListenIdle /\ FrameIdle /\ CodecIdle /\ CmdIdle
Next == EngineNext
Spec == Init /\ [][Next]_vars

SpecNet == Init /\ [][NetNext]_vars

SpecListen == Init /\ [][ListenNext]_vars

InitFrame == EngineInit /\ NetIdle /\ ListenIdle /\ FrameInit /\ CodecIdle /\ CmdIdle
SpecFrame == InitFrame /\ [][FrameNext]_vars

SpecDispatch == Init /\ [][DispatchNext]_vars /\ DispatchFairness

SpecCmd == Init /\ [][CmdNext]_vars

InitChunks == ChunkInit /\ NetIdle /\ ListenIdle /\ FrameIdle /\ CodecIdle /\ CmdIdle
SpecChunks == InitChunks /\ [][ChunksNext]_vars

InitCodec == EngineInit /\ NetIdle /\ ListenIdle /\ FrameIdle /\ CodecInit /\ CmdIdle
SpecCodec == InitCodec /\ [][CodecNext]_vars

(***************************************************************************)
(* Transfer engine: properties.                                            *)
(***************************************************************************)

\* C1: every receive_chunk call that returns a boolean for an id registered
\* with size S returns true exactly when the bytes applied to the id since
\* its registration, this call included, number at least S.
ChunkCompletionThreshold ==
    (ret.op = "receive_chunk" /\ ret.ok) => (ret.val = (ret.cum >= ret.S))

\* A call returned true on reaching a size of 2, so an earlier state of the
\* same registration was below the threshold.
ThresholdReached ==
    /\ ret.op = "receive_chunk"
    /\ ret.ok
    /\ ret.val
    /\ ret.S = 2
    /\ ret.cum = 2

PrepareInFlight(i) ==
    \E t \in TaskIds : tasks[t].pc \in {"pr_create", "pr_insert"} /\ tasks[t].id = i

\* C2: for every tracked id whose receive_chunk calls all succeeded, and
\* for which no prepare_receive is under way, the destination file holds
\* exactly the chunks applied since registration, in call order, and
\* received equals the file's length, whatever was done for other ids.
DestinationFileIsConcatenation ==
    \A i \in Ids :
        (active_receives[i].tracked /\ hist[i].clean /\ ~PrepareInFlight(i))
        => /\ fs[active_receives[i].path] = hist[i].data
           /\ active_receives[i].received = Len(fs[active_receives[i].path])

\* C3: received never exceeds the declared size of a tracked transfer.
ReceivedNeverExceedsSize ==
    \A i \in Ids :
        active_receives[i].tracked => active_receives[i].received <= active_receives[i].size

\* The read of a send_chunk call returned fewer bytes than were there to fill
\* the buffer.
ShortRead ==
    /\ ret.ok
    /\ ret.start # Huge
    /\ ret.start < ret.len
    /\ ret.n < Min(CHUNK_SIZE, ret.len - ret.start)

\* C12: send_chunk on a tracked id, whose file opens and whose read is not
\* cut short by the system, returns the bytes from offset to
\* min(offset + CHUNK_SIZE, N) when offset < N and end-of-file when
\* offset >= N, whatever the offset.
ReadChunkContract ==
    (ret.op = "send_chunk" /\ (ret.ok \/ ret.err = "seek") /\ ~ShortRead)
    => /\ ret.ok
       /\ IF ret.start # Huge /\ ret.start < ret.len
          THEN ret.some /\ ret.n = Min(CHUNK_SIZE, ret.len - ret.start)
          ELSE ~ret.some

\* C13: complete(id) takes id out of active_sends and then out of
\* active_receives and touches no other entry and no file; a remove that
\* finds no entry changes nothing; the call returns without error, and when
\* it returns id is in neither table. Hence a second call in a row is a
\* no-op.
CompleteRemovesOnce ==
    [][\A t \in TaskIds :
        /\ (tasks[t].pc = "cp_sends" /\ tasks'[t] # tasks[t])
           => /\ ~active_sends'[tasks[t].id].tracked
              /\ \A j \in Ids \ {tasks[t].id} : active_sends'[j] = active_sends[j]
              /\ ~active_sends[tasks[t].id].tracked => active_sends' = active_sends
              /\ active_receives' = active_receives
              /\ fs' = fs
              /\ tasks'[t].pc = "cp_receives"
        /\ (tasks[t].pc = "cp_receives" /\ tasks'[t] # tasks[t])
           => /\ ~active_receives'[tasks[t].id].tracked
              /\ \A j \in Ids \ {tasks[t].id} : active_receives'[j] = active_receives[j]
              /\ ~active_receives[tasks[t].id].tracked => active_receives' = active_receives
              /\ active_sends' = active_sends
              /\ ~active_sends'[tasks[t].id].tracked
              /\ fs' = fs
              /\ tasks'[t] = Idle
              /\ ret' = [op |-> "complete", id |-> tasks[t].id, ok |-> TRUE]
      ]_vars

\* complete returned for the second time in a row for an id.
CompletedTwice ==
    \E i \in Ids : ret.op = "complete" /\ ret.id = i /\ hist[i].ended = 2

\* C14: receive_chunk and send_chunk on an id their table does not track
\* return an error and change no table entry and no file.
UntrackedIsRejected ==
    [][\A t \in TaskIds :
        /\ (/\ tasks[t].pc = "rc"
            /\ tasks'[t] # tasks[t]
            /\ ~active_receives[tasks[t].id].tracked)
           => /\ ret'.op = "receive_chunk" /\ ret'.id = tasks[t].id /\ ~ret'.ok
              /\ active_receives' = active_receives
              /\ active_sends' = active_sends
              /\ fs' = fs
        /\ (/\ tasks[t].pc = "sc"
            /\ tasks'[t] # tasks[t]
            /\ ~active_sends[tasks[t].id].tracked)
           => /\ ret'.op = "send_chunk" /\ ret'.id = tasks[t].id /\ ~ret'.ok
              /\ active_receives' = active_receives
              /\ active_sends' = active_sends
              /\ fs' = fs
      ]_vars

\* send_chunk returned an error for an id that complete had finalized and
\* nothing registered since.
RejectedAfterComplete ==
    \E i \in Ids :
        /\ ret.op = "send_chunk" /\ ret.id = i /\ ~ret.ok
        /\ ret.err = "File not found"
        /\ hist[i].ended > 0

\* C15: prepare_send on a path without metadata returns an error and leaves
\* active_sends as it was; on an accessible path it returns the base name
\* and the length and adds the one entry id -> path, for an id tracked in
\* neither table before; it changes nothing else.
PrepareSendContract ==
    [][\A t \in TaskIds :
        (tasks[t].pc = "ps" /\ tasks'[t] # tasks[t])
        => /\ ret'.op = "prepare_send"
           /\ active_receives' = active_receives
           /\ fs' = fs
           /\ IF SrcLen(tasks[t].name) < 0
              THEN ~ret'.ok /\ active_sends' = active_sends
              ELSE /\ ret'.ok
                   /\ ret'.name = FileName(tasks[t].name)
                   /\ ret'.len = SrcLen(tasks[t].name)
                   /\ ~active_sends[ret'.id].tracked
                   /\ ~active_receives[ret'.id].tracked
                   /\ active_sends' = [active_sends EXCEPT ![ret'.id] =
                         [tracked |-> TRUE, path |-> tasks[t].name]]
      ]_vars

\* prepare_send failed on a missing path while an earlier offer stayed
\* tracked.
PrepareSendFailedBesideEntry ==
    /\ ret.op = "prepare_send"
    /\ ~ret.ok
    /\ \E i \in Ids : active_sends[i].tracked /\ active_sends[i].path = "dir/a"

\* The FileChunk that returned last brought the entry of i to
\* received >= size, and the entry is still there.
ChunkCompleted(i) ==
    /\ ret.op = "receive_chunk" /\ ret.id = i /\ ret.ok
    /\ active_receives[i].tracked
    /\ active_receives[i].received >= active_receives[i].size

\* C16: in the inbound dispatch, whenever a FileChunk brings the entry of an
\* id to received >= size, the entry of that id is removed from
\* active_receives in the end, however the handler tasks interleave.
CompletedIsRemoved ==
    \A i \in Ids : ChunkCompleted(i) ~> ~active_receives[i].tracked

\* The complete call of a FileChunk handler returned, the entry gone.
DispatchCompleted ==
    \E i \in Ids :
        /\ ret.op = "complete" /\ ret.id = i
        /\ hist[i].ended = 1
        /\ ~active_receives[i].tracked
        /\ fs["x"] = <<1, 2>>

\* C17: an outbound entry does not outlive its transfer: once the /file
\* command has given up on an offer it could not send, and once the handler
\* of the peer's FileReject or FileComplete for an id has finished, that id
\* is no longer in active_sends.
OutboundEntryEnds ==
    /\ (cmd.pc = "prompt" /\ cmd.out = "Failed to send offer")
       => ~active_sends[cmd.id].tracked
    /\ (ret.op = "handle_message" /\ ret.msg.type \in {"FileReject", "FileComplete"})
       => ~active_sends[ret.msg.id].tracked

\* C18: a receive_chunk call that succeeds has the return value, the
\* received counter and the file content it would have had with any other
\* offset argument: the data goes where the entry's handle stands.
OffsetBlind ==
    [][\A t \in TaskIds :
        (/\ tasks[t].pc = "rc"
         /\ tasks'[t] # tasks[t]
         /\ ret'.ok)
        => \A o \in Offsets :
              LET e == active_receives[tasks[t].id]
                  a == Apply(e, fs[e.path], o, tasks[t].data)
              IN  /\ fs'[e.path] = a.content
                  /\ active_receives'[tasks[t].id] = a.entry
                  /\ ret'.val = IsComplete(a.entry.received, e.size)
      ]_vars

\* A chunk sent with offset 0 was applied behind an earlier one: the file
\* holds them in the order of the calls.
OffsetIgnored ==
    /\ ret.op = "receive_chunk" /\ ret.ok
    /\ ret.offset = 0
    /\ ret.cum = 2
    /\ hist[ret.id].data = <<2, 1>>
    /\ active_receives[ret.id].tracked
    /\ fs[active_receives[ret.id].path] = <<2, 1>>

\* C19: the insert of prepare_receive(id, name2, size2) succeeds whether or
\* not id is tracked, and leaves the one entry of id with size2, received 0
\* and a handle at the start of downloads/name2; what the earlier entry had
\* received is gone; no other entry changes.
ReplaceOnReregister ==
    [][\A t \in TaskIds :
        (tasks[t].pc = "pr_insert" /\ tasks'[t] # tasks[t])
        => /\ ret'.op = "prepare_receive" /\ ret'.id = tasks[t].id /\ ret'.ok
           /\ active_receives'[tasks[t].id] =
                 [tracked |-> TRUE, path |-> DownloadPath(tasks[t].name), pos |-> 0,
                  size |-> tasks[t].size, received |-> 0]
           /\ \A j \in Ids \ {tasks[t].id} : active_receives'[j] = active_receives[j]
           /\ active_sends' = active_sends
      ]_vars

\* prepare_receive returned for an id whose earlier entry had received a
\* byte.
Reregistered ==
    /\ ret.op = "prepare_receive" /\ ret.ok
    /\ ret.replaced
    /\ ret.dropped = 1
    /\ active_receives[ret.id].tracked
    /\ active_receives[ret.id].received = 0
    /\ active_receives[ret.id].size = 2

\* C20: with FileChunk messages handled by concurrent tasks, every tracked
\* transfer whose writes all succeeded has received equal to the summed
\* lengths of the chunks applied to it, and a destination file that is those
\* chunks, whole, in the order they were applied.
WholeChunksInSerialOrder ==
    \A i \in Ids :
        (active_receives[i].tracked /\ hist[i].clean)
        => /\ active_receives[i].received = hist[i].applied
           /\ Len(hist[i].data) = hist[i].applied
           /\ fs[active_receives[i].path] = hist[i].data

(***************************************************************************)
(* Network: properties.                                                    *)
(***************************************************************************)
SendIO == {"connect", "write_len", "write_data", "flush"}

\* C4: while a send_message is in connect or write, nobody waiting for the
\* registry lock (the discovery task with a resolved or removed event,
\* list_peers, another sender) is kept waiting: whoever is first in line
\* can take the lock.
SendNeverStallsRegistry ==
    (\E s \in Senders : senders[s].pc \in SendIO)
    => (rw.queue = <<>> \/ Grantable(Head(rw.queue).who))

\* C5: a send_message whose peer_id is absent when the registry is looked
\* up returns PeerNotFound in that step, having opened no connection and
\* written no byte, and leaves the registry as it was.
PeerNotFoundNoIO ==
    [][\A s \in Senders :
         (/\ senders[s].pc = "wait_read"
          /\ senders'[s] # senders[s]
          /\ ~peers[senders[s].peer_id].present)
         => /\ senders'[s].pc = "idle"
            /\ senders'[s].result = "PeerNotFound"
            /\ wire'[s] = NoWire
            /\ peers' = peers
            /\ rw'.readers = rw.readers]_vars

\* A send to an absent peer has returned.
PeerNotFoundReturned ==
    \E s \in Senders : senders[s].result = "PeerNotFound" /\ wire[s] = NoWire

\* C6: the registry never holds an entry that identifies the local node,
\* by id or by its advertised name.
RegistryExcludesSelf ==
    \A u \in Uuids :
        peers[u].present => (peers[u].id # my_id /\ peers[u].name # MyName)

\* C7: the step in which the discovery task applies a removal of name n
\* leaves no entry named n for list_peers to return, and leaves every
\* entry with another name, and every absent id, as it was.
RemovalClearsName ==
    [][(disc.pc = "wait_write" /\ disc.op = "retain" /\ disc'.pc = "recv")
       => /\ \A e \in Values(peers') : e.name # disc.fullname
          /\ \A u \in Uuids :
                (~peers[u].present \/ peers[u].name # disc.fullname)
                => peers'[u] = peers[u]]_vars

\* A removal has just cleared two entries of one name and left another.
RemovedSeveral ==
    /\ applied.kind = "retain"
    /\ applied.n >= 2
    /\ \E u \in Uuids : peers[u].present

(***************************************************************************)
(* Listener: properties.                                                   *)
(***************************************************************************)
\* The frame a stream carries, read off the stream alone.
DeclaredLen(stream) == FromBeBytes(Take(stream, 4))
WholeFrame(stream) ==
    /\ Len(stream) >= 4
    /\ DeclaredLen(stream) # Huge
    /\ Len(stream) >= 4 + DeclaredLen(stream)
Payload(stream) == SubSeq(stream, 5, 4 + DeclaredLen(stream))
ValidFrame(stream) == WholeFrame(stream) /\ Decode(Payload(stream)) # DecodeError

\* C8: on every connection the handler is called at most once, and only
\* with the decoded payload of a frame whose 4-byte length L and L payload
\* bytes have all arrived; a connection whose peer sends fewer bytes than
\* it declared, or a payload that does not decode, ends in an error with
\* no call of the handler.
HandlerOnlyAfterWholeFrame ==
    \A c \in ConnIds :
        LET cn == conns[c] IN
        /\ Len(delivered[c]) <= 1
        /\ delivered[c] # <<>> =>
              /\ ValidFrame(cn.stream)
              /\ cn.avail >= 4 + DeclaredLen(cn.stream)
              /\ delivered[c] = <<Decode(Payload(cn.stream))>>
              /\ cn.outcome = "ok"
        /\ (cn.pc = "done" /\ ~ValidFrame(cn.stream)) =>
              /\ cn.outcome = "err"
              /\ delivered[c] = <<>>

\* A connection that delivered fewer payload bytes than it declared has
\* ended in an error, the handler not called.
ShortFrameRejected ==
    \E c \in ConnIds :
        /\ conns[c].pc = "done"
        /\ conns[c].outcome = "err"
        /\ ~conns[c].reset
        /\ Len(conns[c].stream) > 4
        /\ ~WholeFrame(conns[c].stream)
        /\ delivered[c] = <<>>

Arrived(c) ==
    /\ conns[c].pc # "none"
    /\ ValidFrame(conns[c].stream)
    /\ conns[c].avail >= 4 + DeclaredLen(conns[c].stream)

\* The accept loop or the connection's handler has a step to take.
CanStep(c) ==
    CASE conns[c].pc = "pending" -> CanAccept(c)
      [] conns[c].pc = "read_len" -> ReadExact(conns[c], 0, 4).st # "pending"
      [] conns[c].pc = "read_body" -> ReadExact(conns[c], 4, conns[c].len).st # "pending"
      [] OTHER -> FALSE

\* C9: a connection whose whole, valid frame has arrived, and which did not
\* itself break, is never kept from its next step (being accepted, reading
\* the prefix, reading the payload and calling the handler) by what the
\* other connections do, and its handler ends with the message delivered.
IndependentDelivery ==
    \A c \in ConnIds :
        (Arrived(c) /\ ~conns[c].reset) =>
            IF conns[c].pc = "done"
            THEN delivered[c] # <<>>
            ELSE CanStep(c)

Stalled(c) ==
    /\ conns[c].pc \in {"read_len", "read_body"}
    /\ ~conns[c].closed /\ ~conns[c].reset
    /\ conns[c].avail = Len(conns[c].stream)
    /\ ~WholeFrame(conns[c].stream)

\* One connection, accepted, waits for bytes that never come, and the
\* other has had its frame delivered.
DeliveredBesideStalled ==
    /\ Stalled(1)
    /\ delivered[2] # <<>>

(***************************************************************************)
(* Framing: properties.                                                    *)
(***************************************************************************)
\* C10: once send_message has written a frame, the length its 4-byte
\* big-endian prefix states equals the number of payload bytes written
\* after it, and the receiver, reading that many bytes, has the whole
\* encoded message.
PrefixEqualsPayloadLength ==
    /\ frame.pc \in {"read_len", "read_body", "done"} =>
          Reverse(frame.prefix) \o Zeros(4) = frame.written
    /\ frame.pc = "done" => frame.got = frame.data_len

(***************************************************************************)
(* Codec: properties.                                                      *)
(***************************************************************************)

\* C11: decoding the bytes encode produced for a Message gives that Message
\* back, for each of the six variants.
RoundTrip ==
    codec.pc = "decoded" => codec.out = codec.msg

\* A FileChunk with a two-byte payload and an offset of three significant
\* bytes went through encode and decode.
RoundTripDone ==
    /\ codec.pc = "decoded"
    /\ codec.msg = FileChunk(255, 16777215, <<1, 2>>)
    /\ Len(codec.bytes) = 4 + 24 + 8 + 8 + 2

====
